---- MODULE Spec2Model ----
(***************************************************************************)
(* Model of src/server/routers/ai-helpers/leo-ex-3.py: a sequential script *)
(* that asks the provider for a presigned upload target, uploads a local   *)
(* image, submits an image-to-image generation, sleeps and polls once.     *)
(*                                                                         *)
(* The script is the only process.  Its environment is the provider (which *)
(* answers every request with some status and some body), the local file   *)
(* system (the image path is a file, a directory or missing) and the clock.*)
(* pc names the source line the script is about to execute; "L19w" means   *)
(* the request of line 19 is sent and requests.post has not returned yet.  *)
(***************************************************************************)
EXTENDS Integers, Sequences, FiniteSets, TLC

VARIABLES
    pc,             \* position in the script
    response,       \* the script's variable `response`
    url,            \* the script's variable `url`
    payload,        \* the script's variable `payload`
    fields,         \* the script's variable `fields`
    image_id,       \* the script's variable `image_id`
    files,          \* the script's variable `files` (the opened image file)
    generation_id,  \* the script's variable `generation_id`
    out,            \* what print() wrote, in order
    error,          \* the uncaught exception that ended the script, or "none"
    calls,          \* the HTTP requests sent, in order
    responses,      \* the HTTP responses received, in order
    now,            \* the clock, in seconds
    sleeps,         \* the suspensions of time.sleep, in seconds, in order
    init_strength,  \* the literal of line 48, in hundredths
    fileKind        \* what /workspace/test.jpg is: "file", "directory" or "missing"

vars == <<pc, response, url, payload, fields, image_id, files, generation_id,
          out, error, calls, responses, now, sleeps, init_strength, fileKind>>

-----------------------------------------------------------------------------
(* Bounds of the environment *)

\* a request takes between 0 and MaxLatency seconds to be answered
MaxLatency == 1
\* time.sleep may suspend for up to MaxOversleep seconds more than asked
MaxOversleep == 1

-----------------------------------------------------------------------------
(* JSON values.  A container position holds a record with a kind: an      *)
(* object (val is the function from its keys), null, an array, or a string *)
(* whose content is itself read as JSON text (ok says whether a JSON       *)
(* parser accepts the content, val is what it parses to).  A leaf (an id,  *)
(* a url, a key) is a plain string.                                        *)

EmptyDict == [k \in {} |-> ""]

JObject(f) == [kind |-> "object", val |-> f]

JNull == [kind |-> "null", val |-> EmptyDict]

JArray == [kind |-> "array", val |-> EmptyDict]

\* the text of the JSON value v
JsonText(v) == [kind |-> "string", ok |-> TRUE, val |-> v]

\* a text no JSON parser accepts
NotJson == [kind |-> "string", ok |-> FALSE, val |-> JNull]

HasKey(d, k) == k \in DOMAIN d

\* v[k] of a value that has it
Item(v, k) == v.val[k]

\* the exception v[k] raises for a string key k, or "none"
SubscriptError(v, k) ==
    IF v.kind # "object" THEN "TypeError"
    ELSE IF ~HasKey(v.val, k) THEN "KeyError"
    ELSE "none"

\* the exception json.loads(s) raises, or "none"
LoadsError(s) ==
    IF s.kind # "string" THEN "TypeError"
    ELSE IF ~s.ok THEN "JSONDecodeError"
    ELSE "none"

-----------------------------------------------------------------------------
(* Lines 5-12 *)

api_key == "<YOUR_API_KEY>"

authorization == "Bearer " \o api_key

headers ==
    ("accept" :> "application/json")
    @@ ("content-type" :> "application/json")
    @@ ("authorization" :> authorization)

\* requests adds no header of the script's when none is passed (line 34)
NoHeaders == [h \in {} |-> ""]

InitImageUrl == "https://cloud.leonardo.ai/api/rest/v1/init-image"

GenerationsUrl == "https://cloud.leonardo.ai/api/rest/v1/generations"

image_file_path == "/workspace/test.jpg"

\* time.sleep(20), line 60
WaitDuration == 20

-----------------------------------------------------------------------------
(* What the provider can answer *)

PresignedUrl == "https://image-flex-213441772509-prod-images.s3-accelerate.amazonaws.com/"

\* a url without a scheme, which requests refuses to send to
RelativeUrl == "uploads/init-image"

UrlValues == {PresignedUrl, RelativeUrl}

AbsoluteUrls == {InitImageUrl, GenerationsUrl, PresignedUrl}

UploadIds == {"abc123", "img-2"}

GenerationIds == {"gen-001", "gen-2"}

ErrorDict == ("error" :> "bad request")

FormFields == JObject(("key" :> "uploads/init.jpg"))

\* the fields member: the text of an object, a text that is no JSON, the text
\* of a JSON string, the text of null, or an object in place of a text
FieldsValues ==
    {JsonText(FormFields), NotJson, JsonText(NotJson), JsonText(JNull), FormFields}

TicketKeys == {"fields", "url", "id"}

TicketsWith(K) ==
    { JObject([k \in K |-> IF k = "fields" THEN f ELSE IF k = "url" THEN u ELSE i]) :
        f \in FieldsValues, u \in UrlValues, i \in UploadIds }

Tickets == UNION { TicketsWith(K) : K \in SUBSET TicketKeys } \cup {JNull}

InitImageBodies ==
    {NotJson, JsonText(JNull), JsonText(JArray), JsonText(JObject(ErrorDict))}
    \cup { JsonText(JObject(("uploadInitImage" :> t))) : t \in Tickets }

UploadBodies == {NotJson}

JobValues ==
    {JObject(EmptyDict), JNull}
    \cup { JObject(("generationId" :> g)) : g \in GenerationIds }

GenerationsBodies ==
    {NotJson, JsonText(JNull), JsonText(JArray), JsonText(JObject(ErrorDict))}
    \cup { JsonText(JObject(("sdGenerationJob" :> j))) : j \in JobValues }

JobStatuses == {"PENDING", "COMPLETE"}

PollBodies ==
    {JsonText(JObject(ErrorDict))}
    \cup { JsonText(JObject(("generations_by_pk" :> JObject(("status" :> s))))) :
             s \in JobStatuses }

ApiStatuses == {200, 400}

StorageStatuses == {204, 403}

Successful(r) == r.status \in 200..299

\* the values line 48 is tried with, in hundredths; the source has 0.5
InitStrengths == {5, 50, 95}

FileKinds == {"file", "directory", "missing"}

NoResponse == [status |-> -1, text |-> NotJson, at |-> -1]

-----------------------------------------------------------------------------
(* Helpers *)

\* requests.post / requests.get as the script calls them
Request(method, target, hdrs, body) ==
    [method |-> method, url |-> target, headers |-> hdrs, body |-> body, at |-> now]

\* the exception open(path, 'rb') raises, or "none"
OpenError(kind) ==
    IF kind = "missing" THEN "FileNotFoundError"
    ELSE IF kind = "directory" THEN "IsADirectoryError"
    ELSE "none"

\* the exception requests.post(u, data=d, files=...) raises before it sends
\* anything, or "none": the url is prepared first, then the body
UploadError(u, d) ==
    IF u \notin AbsoluteUrls THEN "MissingSchema"
    ELSE IF d.kind = "string" THEN "ValueError"
    ELSE "none"

\* how response.json()['uploadInitImage'][k] of lines 24-29 ends
TicketItemError(r, k) ==
    IF ~r.text.ok THEN "JSONDecodeError"
    ELSE IF SubscriptError(r.text.val, "uploadInitImage") # "none"
    THEN SubscriptError(r.text.val, "uploadInitImage")
    ELSE SubscriptError(Item(r.text.val, "uploadInitImage"), k)

\* a variant of PrepareOutcome that fails fast: a non-success status raises
\* (response.raise_for_status()) before the body is read
PrepareOutcomeFailFast(r, kind) ==
    IF ~(r.status \in 200..299) THEN [exc |-> "HTTPError", line |-> 24]
    ELSE IF TicketItemError(r, "fields") # "none"
    THEN [exc |-> TicketItemError(r, "fields"), line |-> 24]
    ELSE LET t == Item(r.text.val, "uploadInitImage") IN
         IF LoadsError(Item(t, "fields")) # "none"
         THEN [exc |-> LoadsError(Item(t, "fields")), line |-> 24]
         ELSE IF TicketItemError(r, "url") # "none"
         THEN [exc |-> TicketItemError(r, "url"), line |-> 26]
         ELSE IF TicketItemError(r, "id") # "none"
         THEN [exc |-> TicketItemError(r, "id"), line |-> 29]
         ELSE IF OpenError(kind) # "none"
         THEN [exc |-> OpenError(kind), line |-> 32]
         ELSE [exc |-> "none", line |-> 34]

\* how lines 24-32 end for the response r: the exception and the line that
\* raises it, or "none"
PrepareOutcome(r, kind) ==
    IF TicketItemError(r, "fields") # "none"                     \* line 24
    THEN [exc |-> TicketItemError(r, "fields"), line |-> 24]
    ELSE LET t == Item(r.text.val, "uploadInitImage") IN
         IF LoadsError(Item(t, "fields")) # "none"               \* line 24, json.loads
         THEN [exc |-> LoadsError(Item(t, "fields")), line |-> 24]
         ELSE IF TicketItemError(r, "url") # "none"              \* line 26
         THEN [exc |-> TicketItemError(r, "url"), line |-> 26]
         ELSE IF TicketItemError(r, "id") # "none"               \* line 29
         THEN [exc |-> TicketItemError(r, "id"), line |-> 29]
         ELSE IF OpenError(kind) # "none"                        \* line 32
         THEN [exc |-> OpenError(kind), line |-> 32]
         ELSE [exc |-> "none", line |-> 34]

\* the exception line 56 ends with for the response r, or "none"
GenerationIdError(r) ==
    IF ~r.text.ok THEN "JSONDecodeError"
    ELSE IF SubscriptError(r.text.val, "sdGenerationJob") # "none"
    THEN SubscriptError(r.text.val, "sdGenerationJob")
    ELSE SubscriptError(Item(r.text.val, "sdGenerationJob"), "generationId")

\* a variant of GenerationPayload that validates the strength locally and
\* clamps it into the provider's range
GenerationPayloadClamped(img, strength) ==
    [height |-> 512,
     modelId |-> "1e60896f-3c26-4296-8ecc-53e2afecc132",
     prompt |-> "An oil painting of a cat",
     width |-> 512,
     init_image_id |-> img,
     init_strength |-> IF strength < 10 THEN 10 ELSE IF strength > 90 THEN 90 ELSE strength]

\* lines 42-49
GenerationPayload(img, strength) ==
    [height |-> 512,
     modelId |-> "1e60896f-3c26-4296-8ecc-53e2afecc132",
     prompt |-> "An oil painting of a cat",
     width |-> 512,
     init_image_id |-> img,
     init_strength |-> strength]

\* a variant of GenerationUrl that polls the collection, not the job
GenerationUrlWithoutId(gid) == "https://cloud.leonardo.ai/api/rest/v1/generations/"

\* line 58
GenerationUrl(gid) == "https://cloud.leonardo.ai/api/rest/v1/generations/" \o gid

\* a variant of SleepDurations: a sleep that a signal can cut short
SleepDurationsInterrupted(secs) == 0 .. (secs + MaxOversleep)

\* how long time.sleep(secs) can suspend the script: at least secs
SleepDurations(secs) == secs .. (secs + MaxOversleep)

Raise(exc) ==
    /\ pc' = "raised"
    /\ error' = exc

-----------------------------------------------------------------------------
(* The state after lines 1-17 *)

Init ==
    /\ pc = "L19"
    /\ response = NoResponse
    /\ url = InitImageUrl
    /\ payload = [extension |-> "jpg"]
    /\ fields = JNull
    /\ image_id = ""
    /\ files = EmptyDict
    /\ generation_id = ""
    /\ out = <<>>
    /\ error = "none"
    /\ calls = <<>>
    /\ responses = <<>>
    /\ now = 0
    /\ sleeps = <<>>
    /\ init_strength \in InitStrengths
    /\ fileKind \in FileKinds

\* requests.* returns: the provider's answer becomes `response`
Receive(at, next, statuses, bodies) ==
    /\ pc = at
    /\ \E st \in statuses, b \in bodies, d \in 0..MaxLatency :
          LET r == [status |-> st, text |-> b, at |-> now + d] IN
          /\ response' = r
          /\ responses' = Append(responses, r)
          /\ now' = now + d
    /\ pc' = next
    /\ UNCHANGED <<url, payload, fields, image_id, files, generation_id, out, error,
                   calls, sleeps, init_strength, fileKind>>

\* line 19, the request
PostInitImage ==
    /\ pc = "L19"
    /\ calls' = Append(calls, Request("POST", url, headers, [json |-> payload]))
    /\ pc' = "L19w"
    /\ UNCHANGED <<response, url, payload, fields, image_id, files, generation_id, out,
                   error, responses, now, sleeps, init_strength, fileKind>>

\* line 19, the response
RecvInitImage == Receive("L19w", "L21", ApiStatuses, InitImageBodies)

\* lines 21-32
PrepareUpload ==
    /\ pc = "L21"
    /\ out' = Append(out, "Get a presigned URL for uploading an image: "
                            \o ToString(response.status))
    /\ LET o == PrepareOutcome(response, fileKind)
           t == Item(response.text.val, "uploadInitImage")
       IN
       \* a line that raises leaves the assignments of the lines before it
       /\ fields' = IF o.line > 24 THEN Item(t, "fields").val ELSE fields
       /\ url' = IF o.line > 26 THEN Item(t, "url") ELSE url
       /\ image_id' = IF o.line > 29 THEN Item(t, "id") ELSE image_id
       /\ files' = IF o.line > 32 THEN ("file" :> image_file_path) ELSE files
       /\ IF o.exc = "none"
          THEN pc' = "L34" /\ error' = error
          ELSE Raise(o.exc)
    /\ UNCHANGED <<response, payload, generation_id, calls, responses, now, sleeps,
                   init_strength, fileKind>>

\* a variant of PostUpload that forgets the upload and goes on to line 36
PostUploadSkipped ==
    /\ pc = "L34"
    /\ pc' = "L36"
    /\ UNCHANGED <<response, url, payload, fields, image_id, files, generation_id, out,
                   error, calls, responses, now, sleeps, init_strength, fileKind>>

\* a variant of PostUpload that passes the API headers to the storage backend
PostUploadWithHeaders ==
    /\ pc = "L34"
    /\ IF UploadError(url, fields) = "none"
       THEN /\ calls' = Append(calls, Request("POST", url, headers,
                                              [data |-> fields, files |-> files]))
            /\ pc' = "L34w"
            /\ error' = error
       ELSE /\ Raise(UploadError(url, fields))
            /\ calls' = calls
    /\ UNCHANGED <<response, url, payload, fields, image_id, files, generation_id, out,
                   responses, now, sleeps, init_strength, fileKind>>

\* line 34, the request: no headers are passed; requests raises before it
\* sends when it cannot prepare the url or the form data
PostUpload ==
    /\ pc = "L34"
    /\ IF UploadError(url, fields) = "none"
       THEN /\ calls' = Append(calls, Request("POST", url, NoHeaders,
                                              [data |-> fields, files |-> files]))
            /\ pc' = "L34w"
            /\ error' = error
       ELSE /\ Raise(UploadError(url, fields))
            /\ calls' = calls
    /\ UNCHANGED <<response, url, payload, fields, image_id, files, generation_id, out,
                   responses, now, sleeps, init_strength, fileKind>>

\* line 34, the response
RecvUpload == Receive("L34w", "L36", StorageStatuses, UploadBodies)

\* a variant of BuildGeneration that names the image by the storage key of the
\* upload form, not by the id of the upload ticket
BuildGenerationFromKey ==
    /\ pc = "L36"
    /\ out' = Append(out, "Upload image via presigned URL: " \o ToString(response.status))
    /\ url' = GenerationsUrl
    /\ payload' = GenerationPayload(IF fields.kind = "object" THEN fields.val["key"] ELSE "",
                                     init_strength)
    /\ pc' = "L51"
    /\ UNCHANGED <<response, fields, image_id, files, generation_id, error, calls,
                   responses, now, sleeps, init_strength, fileKind>>

\* lines 36-49
BuildGeneration ==
    /\ pc = "L36"
    /\ out' = Append(out, "Upload image via presigned URL: " \o ToString(response.status))
    /\ url' = GenerationsUrl
    /\ payload' = GenerationPayload(image_id, init_strength)
    /\ pc' = "L51"
    /\ UNCHANGED <<response, fields, image_id, files, generation_id, error, calls,
                   responses, now, sleeps, init_strength, fileKind>>

\* line 51, the request
PostGenerations ==
    /\ pc = "L51"
    /\ calls' = Append(calls, Request("POST", url, headers, [json |-> payload]))
    /\ pc' = "L51w"
    /\ UNCHANGED <<response, url, payload, fields, image_id, files, generation_id, out,
                   error, responses, now, sleeps, init_strength, fileKind>>

\* line 51, the response
RecvGenerations == Receive("L51w", "L53", ApiStatuses, GenerationsBodies)

\* a variant of ReadGenerationId that reads the id with .get() and a default,
\* so that a missing key raises nothing
ReadGenerationIdLenient ==
    /\ pc = "L53"
    /\ out' = Append(out, "Generation of Images using Image to Image "
                            \o ToString(response.status))
    /\ IF ~response.text.ok
       THEN Raise("JSONDecodeError") /\ UNCHANGED <<generation_id, url>>
       ELSE LET g == IF GenerationIdError(response) = "none"
                     THEN Item(Item(response.text.val, "sdGenerationJob"), "generationId")
                     ELSE "None"
            IN
            /\ generation_id' = g
            /\ url' = GenerationUrl(g)
            /\ pc' = "L60"
            /\ error' = error
    /\ UNCHANGED <<response, payload, fields, image_id, files, calls, responses, now,
                   sleeps, init_strength, fileKind>>

\* lines 53-58
ReadGenerationId ==
    /\ pc = "L53"
    /\ out' = Append(out, "Generation of Images using Image to Image "
                            \o ToString(response.status))
    /\ LET exc == GenerationIdError(response) IN
       IF exc = "none"
       THEN LET g == Item(Item(response.text.val, "sdGenerationJob"), "generationId") IN
            /\ generation_id' = g
            /\ url' = GenerationUrl(g)
            /\ pc' = "L60"
            /\ error' = error
       ELSE /\ Raise(exc)
            /\ UNCHANGED <<generation_id, url>>
    /\ UNCHANGED <<response, payload, fields, image_id, files, calls, responses, now,
                   sleeps, init_strength, fileKind>>

\* line 60
Sleep ==
    /\ pc = "L60"
    /\ \E d \in SleepDurations(WaitDuration) :
          /\ now' = now + d
          /\ sleeps' = Append(sleeps, d)
    /\ pc' = "L62"
    /\ UNCHANGED <<response, url, payload, fields, image_id, files, generation_id, out,
                   error, calls, responses, init_strength, fileKind>>

\* line 62, the request
GetGeneration ==
    /\ pc = "L62"
    /\ calls' = Append(calls, Request("GET", url, headers, EmptyDict))
    /\ pc' = "L62w"
    /\ UNCHANGED <<response, url, payload, fields, image_id, files, generation_id, out,
                   error, responses, now, sleeps, init_strength, fileKind>>

\* line 62, the response
RecvGeneration == Receive("L62w", "L64", ApiStatuses, PollBodies)

\* a variant of PrintResult that polls again (up to three times) while the job
\* is pending
PrintResultOrRepoll ==
    /\ pc = "L64"
    /\ IF /\ response.text.ok
          /\ SubscriptError(response.text.val, "generations_by_pk") = "none"
          /\ Item(Item(response.text.val, "generations_by_pk"), "status") = "PENDING"
          /\ Len(calls) < 6
       THEN pc' = "L60" /\ out' = out
       ELSE pc' = "done" /\ out' = Append(out, response.text)
    /\ UNCHANGED <<response, url, payload, fields, image_id, files, generation_id, error,
                   calls, responses, now, sleeps, init_strength, fileKind>>

\* line 64 and the end of the script
PrintResult ==
    /\ pc = "L64"
    /\ out' = Append(out, response.text)
    /\ pc' = "done"
    /\ UNCHANGED <<response, url, payload, fields, image_id, files, generation_id, error,
                   calls, responses, now, sleeps, init_strength, fileKind>>

Next ==
    \/ PostInitImage
    \/ RecvInitImage
    \/ PrepareUpload
    \/ PostUpload
    \/ RecvUpload
    \/ BuildGeneration
    \/ PostGenerations
    \/ RecvGenerations
    \/ ReadGenerationId
    \/ Sleep
    \/ GetGeneration
    \/ RecvGeneration
    \/ PrintResult

Spec == Init /\ [][Next]_vars

\* the interpreter keeps executing the script, and the provider answers
FairSpec == Spec /\ WF_vars(Next)

Terminated == pc \in {"done", "raised"}

-----------------------------------------------------------------------------
(* Properties *)

GenerationsEndpoint == "https://cloud.leonardo.ai/api/rest/v1/generations"

AllSuccessful == \A i \in 1..Len(responses) : responses[i].status \in 200..299

\* the request the script is to send as its i-th, given the responses so far
ExpectedCall(i) ==
    CASE i = 1 -> <<"POST", "https://cloud.leonardo.ai/api/rest/v1/init-image">>
      [] i = 2 -> <<"POST", responses[1].text.val.val["uploadInitImage"].val["url"]>>
      [] i = 3 -> <<"POST", GenerationsEndpoint>>
      [] OTHER -> <<"GET", GenerationsEndpoint \o "/"
                             \o responses[3].text.val.val["sdGenerationJob"].val["generationId"]>>

\* C1: while every response received is a success, the requests sent are, in
\* order and once each, POST init-image, POST to the presigned URL, POST
\* generations and GET generations/{generationId}; a request is sent only
\* when the response to the one before it is in; and the script ends normally
\* only after all four.
C1_FourCallsInOrder ==
    AllSuccessful =>
        /\ Len(calls) <= 4
        /\ Len(responses) <= Len(calls)
        /\ Len(calls) <= Len(responses) + 1
        /\ \A i \in 1..Len(calls) : <<calls[i].method, calls[i].url>> = ExpectedCall(i)
        /\ \A i \in 2..Len(calls) : calls[i].at >= responses[i - 1].at
        /\ (pc = "done" => Len(calls) = 4 /\ Len(responses) = 4)

C1_Witness == pc = "done" /\ Len(responses) = 4 /\ AllSuccessful

\* C3: the generation request carries as init_image_id the id of call 1's
\* response, whatever call 2 and its response were.
C3_UploadIdUnchanged ==
    Len(calls) >= 3 =>
        calls[3].body.json.init_image_id = responses[1].text.val.val["uploadInitImage"].val["id"]

C3_Witness ==
    /\ Len(calls) >= 3
    /\ Len(responses) >= 2
    /\ responses[1].text.val.val["uploadInitImage"].val["id"] = "abc123"
    /\ calls[3].body.json.init_image_id = "abc123"

\* C4: call 4 is a GET of /api/rest/v1/generations/ followed by the id that
\* call 3's response of this run returned, and no GET targets anything else.
C4_PollTargetsReturnedId ==
    /\ Len(calls) >= 4 => calls[4].method = "GET"
    /\ \A i \in 1..Len(calls) :
          calls[i].method = "GET" =>
             /\ Len(responses) >= 3
             /\ calls[i].url = "https://cloud.leonardo.ai/api/rest/v1/generations/"
                                 \o responses[3].text.val.val["sdGenerationJob"].val["generationId"]

C4_Witness ==
    /\ Len(calls) = 4
    /\ responses[3].text.val.val["sdGenerationJob"].val["generationId"] = "gen-001"
    /\ calls[4].url = "https://cloud.leonardo.ai/api/rest/v1/generations/gen-001"

\* C5: call 4 is sent at least 20 seconds after call 3's response was
\* received.
C5_PollAfterWait ==
    Len(calls) >= 4 => calls[4].at - responses[3].at >= 20

C5_Witness == Len(calls) >= 4 /\ calls[4].at - responses[3].at = 20

OutOfRange(strength) == strength <= 10 \/ strength >= 90

\* C6: a strength outside (0.1, 0.9) is never rejected or altered: once the
\* upload has been answered the script goes on to send call 3, and call 3
\* carries the value as it is.
C6_StrengthForwarded ==
    (OutOfRange(init_strength) /\ Len(responses) >= 2 /\ pc \notin {"L36", "L51"}) =>
        /\ Len(calls) >= 3
        /\ calls[3].body.json.init_strength = init_strength

C6_Witness ==
    /\ OutOfRange(init_strength)
    /\ Len(calls) >= 3
    /\ calls[3].body.json.init_strength = init_strength

\* C9: calls 1, 3 and 4 carry the bearer authorization header, call 2 does
\* not, and no request to the presigned URL carries it.
C9_AuthorizationOnlyToApi ==
    \A i \in 1..Len(calls) :
        /\ i \in {1, 3, 4} =>
              /\ HasKey(calls[i].headers, "authorization")
              /\ calls[i].headers["authorization"] = "Bearer <YOUR_API_KEY>"
        /\ i = 2 => ~HasKey(calls[i].headers, "authorization")
        /\ (i > 1 /\ calls[i].url = responses[1].text.val.val["uploadInitImage"].val["url"])
              => ~HasKey(calls[i].headers, "authorization")

C9_Witness ==
    /\ Len(calls) = 4
    /\ ~HasKey(calls[2].headers, "authorization")
    /\ HasKey(calls[4].headers, "authorization")

StatusLine1 ==
    "Get a presigned URL for uploading an image: " \o ToString(responses[1].status)

StatusLine3 ==
    "Generation of Images using Image to Image " \o ToString(responses[3].status)

\* the response carries uploadInitImage with fields, url and id
HasUploadTicket(r) ==
    /\ r.text.ok
    /\ r.text.val.kind = "object"
    /\ HasKey(r.text.val.val, "uploadInitImage")
    /\ r.text.val.val["uploadInitImage"].kind = "object"
    /\ {"fields", "url", "id"} \subseteq DOMAIN r.text.val.val["uploadInitImage"].val

\* the response carries sdGenerationJob.generationId
HasGenerationId(r) ==
    /\ r.text.ok
    /\ r.text.val.kind = "object"
    /\ HasKey(r.text.val.val, "sdGenerationJob")
    /\ r.text.val.val["sdGenerationJob"].kind = "object"
    /\ HasKey(r.text.val.val["sdGenerationJob"].val, "generationId")

\* the fields member of the ticket is a string that parses as JSON
FieldsParsable(r) ==
    /\ r.text.val.val["uploadInitImage"].val["fields"].kind = "string"
    /\ r.text.val.val["uploadInitImage"].val["fields"].ok

\* the body and the image path let lines 24-34 send the upload; the status
\* of r is not read
BodyReachesUpload(r) ==
    /\ HasUploadTicket(r)
    /\ FieldsParsable(r)
    /\ fileKind = "file"
    \* line 34 accepts the url and the form data
    /\ r.text.val.val["uploadInitImage"].val["url"]
          = "https://image-flex-213441772509-prod-images.s3-accelerate.amazonaws.com/"
    /\ r.text.val.val["uploadInitImage"].val["fields"].val.kind \in {"object", "null"}

\* C2, as claimed: after a non-success answer to call 1 the script does not
\* end before call 2 is sent.
C2_NeverStopsBeforeUpload ==
    (Len(responses) >= 1 /\ responses[1].status \notin 200..299) =>
        ~(Terminated /\ Len(calls) < 2)

\* C2, amended: after a non-success answer to call 1 the script logs the
\* status and does not stop because of it: it reads the body as it would
\* read a successful one.  Call 2 is sent only when the body carries
\* uploadInitImage with url, id and parsable fields and the image file can
\* be opened (and is sent whenever, besides, line 34 accepts the url and the
\* parsed fields); whenever call 2 is not sent, the script has ended with an
\* uncaught exception raised after the log line.
C2_StatusAloneNeverStops ==
    (Len(responses) >= 1 /\ responses[1].status \notin 200..299
        /\ pc \notin {"L21", "L34"}) =>
        /\ Len(out) >= 1
        /\ out[1] = StatusLine1
        /\ Len(calls) >= 2 =>
              /\ HasUploadTicket(responses[1])
              /\ FieldsParsable(responses[1])
              /\ fileKind = "file"
        /\ Len(calls) >= 2 <=> BodyReachesUpload(responses[1])
        /\ Len(calls) < 2 =>
              /\ pc = "raised"
              /\ error # "none"
              /\ Len(calls) = 1
              /\ out = <<StatusLine1>>

C2_Witness ==
    /\ Len(calls) >= 2
    /\ responses[1].status = 400
    /\ out[1] = "Get a presigned URL for uploading an image: 400"

\* C7, as claimed: call 3 is sent only when the upload of call 2 was
\* answered with a success status.
C7_GenerationOnlyAfterCompletedUpload ==
    Len(calls) >= 3 => (Len(responses) >= 2 /\ responses[2].status \in 200..299)

\* C8: at most one GET and one sleep ever happen; once the poll is answered
\* the script prints the raw answer and ends, whatever the job's status; and
\* once call 3 has returned a generation id the script does end, after
\* exactly four calls.
C8_SinglePoll ==
    /\ [](Cardinality({i \in 1..Len(calls) : calls[i].method = "GET"}) <= 1)
    /\ [](Len(sleeps) <= 1)
    /\ []((Len(responses) >= 4 /\ pc # "L64") =>
             (pc = "done" /\ Len(responses) = 4 /\ out[Len(out)] = responses[4].text))
    /\ ((Len(responses) >= 3 /\ HasGenerationId(responses[3]))
           ~> (pc = "done" /\ Len(calls) = 4))

C8_Witness ==
    /\ pc = "done"
    /\ responses[4].text.ok
    /\ responses[4].text.val.kind = "object"
    /\ HasKey(responses[4].text.val.val, "generations_by_pk")
    /\ responses[4].text.val.val["generations_by_pk"].val["status"] = "PENDING"
    /\ Cardinality({i \in 1..Len(calls) : calls[i].method = "GET"}) = 1
    /\ out[Len(out)] = responses[4].text

\* C10: a response without the field the next step reads ends the script
\* with an uncaught exception right after its status line is printed: no
\* call 2 or 3 after a call-1 response without uploadInitImage url, fields
\* and id; no sleep and no call 4 after a call-3 response without
\* sdGenerationJob.generationId.
C10_MissingFieldStops ==
    /\ (Len(responses) >= 1 /\ ~HasUploadTicket(responses[1]) /\ pc # "L21") =>
          /\ pc = "raised"
          /\ error # "none"
          /\ Len(calls) = 1
          /\ out = <<StatusLine1>>
    /\ (Len(responses) >= 3 /\ ~HasGenerationId(responses[3]) /\ pc # "L53") =>
          /\ pc = "raised"
          /\ error # "none"
          /\ Len(calls) = 3
          /\ sleeps = <<>>
          /\ Len(out) = 3
          /\ out[3] = StatusLine3

C10_Witness ==
    /\ Len(responses) = 3
    /\ ~HasGenerationId(responses[3])
    /\ pc = "raised"
    /\ out[3] = "Generation of Images using Image to Image 200"

====
